---- MODULE Spec2Model ----
(***************************************************************************)
(* Model of the RPC bridge of motif-api: FtmBridge.DefiConfiguration with  *)
(* its loaders, the decimals correction, FtmBridge.AccountBalance,         *)
(* FtmBridge.AccountNonce and the ERC20 token resolver.                    *)
(*                                                                         *)
(* The bridge keeps no state between calls, so the state is the call being *)
(* served: what the node answers (node), the position in the handler (pc), *)
(* the handler's locals and what it returned (ret).                        *)
(*                                                                         *)
(* A Go pointer is a set of at most one element: nil is {}.  A big.Int is  *)
(* a sequence of base 2^16 limbs, least significant first, without leading *)
(* zero limbs; zero is << >>.  A Go string is a sequence of characters.    *)
(***************************************************************************)
EXTENDS Integers, Sequences, FiniteSets, TLC

VARIABLES op, pc, node, ds, pending, invoked, value, dec, ret, prev

vars == <<op, pc, node, ds, pending, invoked, value, dec, ret, prev>>

------------------------------------------------------------------------------
(* Bounds of the model. *)

\* longest node reply (in characters) given to the hex decoders
MaxLen == 4
\* scale factors given to the decimals correction are m * 10^k + c with
\* m <= MaxMant, k <= MaxExp, c <= MaxAdd
MaxMant == 9
MaxExp == 21
MaxAdd == 1

------------------------------------------------------------------------------
(* math/big: arbitrary precision naturals. *)

Base == 2 ^ 16

Nil == {}

NoErr == ""

Min(a, b) == IF a < b THEN a ELSE b

RECURSIVE Norm(_)
Norm(b) ==
    IF b = << >> THEN << >>
    ELSE IF b[Len(b)] = 0 THEN Norm(SubSeq(b, 1, Len(b) - 1))
    ELSE b

RECURSIVE FromInt(_)
FromInt(n) ==
    IF n = 0 THEN << >> ELSE <<n % Base>> \o FromInt(n \div Base)

RECURSIVE MulAddLimbs(_, _, _)
MulAddLimbs(b, m, c) ==
    IF b = << >> THEN FromInt(c)
    ELSE LET t == b[1] * m + c
         IN  <<t % Base>> \o MulAddLimbs(Tail(b), m, t \div Base)

\* b * m + c, for small m and c
MulAdd(b, m, c) == Norm(MulAddLimbs(b, m, c))

RECURSIVE DivLimbs(_, _, _, _)
DivLimbs(b, i, d, r) ==
    IF i = 0 THEN << >>
    ELSE LET t == r * Base + b[i]
         IN  DivLimbs(b, i - 1, d, t % d) \o <<t \div d>>

\* b / d rounded down, for small d
DivSmall(b, d) == Norm(DivLimbs(b, Len(b), d, 0))

RECURSIVE LessFrom(_, _, _)
LessFrom(a, b, i) ==
    IF i = 0 THEN FALSE
    ELSE IF a[i] # b[i] THEN a[i] < b[i]
    ELSE LessFrom(a, b, i - 1)

\* a < b
Less(a, b) ==
    IF Len(a) # Len(b) THEN Len(a) < Len(b) ELSE LessFrom(a, b, Len(a))

Leq(a, b) == a = b \/ Less(a, b)

RECURSIVE Pow10(_)
Pow10(k) == IF k = 0 THEN <<1>> ELSE MulAdd(Pow10(k - 1), 10, 0)

\* big.Int.Uint64: the low 64 bits of the value
Uint64(b) == Norm(SubSeq(b, 1, Min(4, Len(b))))

------------------------------------------------------------------------------
(* hexutil: decoding of the node's hex replies. *)

Digits == <<"0", "1", "2", "3", "4", "5", "6", "7", "8", "9">>

LowerHex == <<"a", "b", "c", "d", "e", "f">>

UpperHex == <<"A", "B", "C", "D", "E", "F">>

IsNibble(c) ==
    \/ \E i \in 1..10 : Digits[i] = c
    \/ \E i \in 1..6 : LowerHex[i] = c \/ UpperHex[i] = c

decodeNibble(c) ==
    IF \E i \in 1..10 : Digits[i] = c
    THEN (CHOOSE i \in 1..10 : Digits[i] = c) - 1
    ELSE (CHOOSE i \in 1..6 : LowerHex[i] = c \/ UpperHex[i] = c) + 9

has0xPrefix(s) ==
    Len(s) >= 2 /\ s[1] = "0" /\ (s[2] = "x" \/ s[2] = "X")

checkNumber(s) ==
    IF Len(s) = 0 THEN [raw |-> << >>, err |-> "empty hex string"]
    ELSE IF ~has0xPrefix(s) THEN [raw |-> << >>, err |-> "hex string without 0x prefix"]
    ELSE IF Len(s) = 2 THEN [raw |-> << >>, err |-> "hex string \"0x\""]
    ELSE IF Len(s) > 3 /\ s[3] = "0"
         THEN [raw |-> << >>, err |-> "hex number with leading zero digits"]
    ELSE [raw |-> SubSeq(s, 3, Len(s)), err |-> NoErr]

RECURSIVE HexValue(_)
HexValue(raw) ==
    IF raw = << >> THEN << >>
    ELSE MulAdd(HexValue(SubSeq(raw, 1, Len(raw) - 1)), 16,
                decodeNibble(raw[Len(raw)]))

\* hexutil.DecodeBig: (*big.Int, error)
DecodeBig(s) ==
    LET n == checkNumber(s)
    IN  IF n.err # NoErr THEN [val |-> Nil, err |-> n.err]
        ELSE IF Len(n.raw) > 64
             THEN [val |-> Nil, err |-> "hex number > 256 bits"]
        ELSE IF \E i \in 1..Len(n.raw) : ~IsNibble(n.raw[i])
             THEN [val |-> Nil, err |-> "invalid hex string"]
        ELSE [val |-> {HexValue(n.raw)}, err |-> NoErr]

\* hexutil.DecodeUint64: (uint64, error); strconv.ParseUint reads the digits
\* left to right and reports a bad digit before the overflow of that digit
DecodeUint64(s) ==
    LET n == checkNumber(s)
    IN  IF n.err # NoErr THEN [val |-> << >>, err |-> n.err]
        ELSE IF \E i \in 1..Min(Len(n.raw), 17) : ~IsNibble(n.raw[i])
             THEN [val |-> << >>, err |-> "invalid hex string"]
        ELSE IF Len(n.raw) > 16
             THEN [val |-> <<Base - 1, Base - 1, Base - 1, Base - 1>>,
                   err |-> "hex number > 64 bits"]
        ELSE [val |-> HexValue(n.raw), err |-> NoErr]

------------------------------------------------------------------------------
(* The node and the values it can answer with. *)

\* the error kinds of a remote call
Causes == {"TransportError", "RemoteError"}

\* what a contract call stub returns: (*big.Int, error)
LoaderOutcomes(values) ==
    {[val |-> {v}, err |-> NoErr] : v \in values}
        \cup {[val |-> Nil, err |-> c] : c \in Causes}
        \cup {[val |-> Nil, err |-> NoErr]}

RatioValues == {FromInt(15000), FromInt(30000)}

\* digits corrections answered during whole DefiConfiguration calls
ConfigScales == {Pow10(4), FromInt(25), Pow10(20)}

\* digits corrections answered to the decimals correction alone
ScaleFactors ==
    {MulAdd(Pow10(k), m, c) : m \in 0..MaxMant, k \in 0..MaxExp, c \in 0..MaxAdd}

Alphabet == {"0", "x", "X", "1", "f", "g"}

Strings == UNION {[1..n -> Alphabet] : n \in 0..MaxLen}

\* what rpc.Call leaves in the result string, and its error
Replies ==
    {[str |-> s, err |-> NoErr] : s \in Strings}
        \cup {[str |-> << >>, err |-> c] : c \in Causes}

Addresses == {"0x21be370d5312f44cb42ce377bc9b8a0cef1a4c83",
              "0x04068da6c83afcfa0e13ba15a6696662335d5b75"}

\* what repository.Erc20Token answers for an address: (*types.Erc20Token, error)
ProbeOutcomes(adr) ==
    {[val |-> {[Address |-> adr]}, err |-> NoErr]}
        \cup {[val |-> Nil, err |-> c]
                : c \in {"TransportError", "RemoteError", "DecodeError"}}

RatioSlots == {"MintFee4", "MinCollateralRatio4", "RewardCollateralRatio4"}

Methods == {"GetFMintFee4dec", "GetCollateralLowestDebtRatio4dec",
            "GetRewardEligibilityRatio4dec", "FMintFeeDigitsCorrection"}

NoCalls == [m \in Methods |-> [val |-> Nil, err |-> NoErr]]

NoReply == [str |-> << >>, err |-> NoErr]

NoProbe == [val |-> Nil, err |-> NoErr]

\* a node that is not asked anything
NoNode ==
    [contract |-> NoErr, call |-> NoCalls, reply |-> NoReply,
     adr |-> "", probe |-> NoProbe]

------------------------------------------------------------------------------
(* types.DefiSettings and FtmBridge.DefiConfiguration. *)

Zero == << >>

ZeroSettings ==
    [FMintContract |-> "", FMintAddressProvider |-> "", FMintTokenRegistry |-> "",
     FMintRewardDistribution |-> "", FMintCollateralPool |-> "",
     FMintDebtPool |-> "", PriceOracleAggregate |-> "",
     MintFee4 |-> Zero, MinCollateralRatio4 |-> Zero,
     RewardCollateralRatio4 |-> Zero, Decimals |-> 0]

\* the address of a hex string: 20 bytes, written here in lower case
mustContractAddress(hex) ==
    IF hex = "0xA1EA42f737bb2E09b0AE4DE001eE06e3BC484fE5"
    THEN "0xa1ea42f737bb2e09b0ae4de001ee06e3bc484fe5"
    ELSE hex

\* the container as created before any loader runs
SeededSettings ==
    [ZeroSettings EXCEPT
        !.FMintContract = mustContractAddress("0x4acb55fe5f0b7c487edec3862079aa36ab054358"),
        !.FMintAddressProvider = mustContractAddress("0xdeec401e448d5d9132eb79ac84eb3f212d7759fb"),
        !.FMintTokenRegistry = mustContractAddress("0x60092e344c63c6628ec77926e508f9a9c80553ef"),
        !.FMintRewardDistribution = mustContractAddress("0x0039597eb5aa5760e8db15fbe525e56aa661ef26"),
        !.FMintCollateralPool = mustContractAddress("0x6d5f2f2e391f47a1075df4d39a24286c63c0e70c"),
        !.FMintDebtPool = mustContractAddress("0xe2d1105f35649bf16deebccec1f2100dcb9aadf5"),
        !.PriceOracleAggregate = mustContractAddress("0xA1EA42f737bb2E09b0AE4DE001eE06e3BC484fE5")]

\* the loaders table with two destinations exchanged
LoadersSwapped ==
    [MintFee4 |-> "GetCollateralLowestDebtRatio4dec",
     MinCollateralRatio4 |-> "GetFMintFee4dec",
     RewardCollateralRatio4 |-> "GetRewardEligibilityRatio4dec"]

\* the loaders table: the settings slot each contract method is loaded into
Loaders ==
    [MintFee4 |-> "GetFMintFee4dec",
     MinCollateralRatio4 |-> "GetCollateralLowestDebtRatio4dec",
     RewardCollateralRatio4 |-> "GetRewardEligibilityRatio4dec"]

\* the method behind a slot, the digits correction included
MethodOf(slot) ==
    IF slot = "Decimals" THEN "FMintFeeDigitsCorrection" ELSE Loaders[slot]

\* pullDefiConfigValue without its test for a missing value
pullDefiConfigValueUnchecked(out) ==
    IF out.err # NoErr THEN [val |-> Zero, err |-> out.err]
    ELSE IF out.val = Nil THEN [val |-> Zero, err |-> NoErr]
    ELSE [val |-> CHOOSE v \in out.val : TRUE, err |-> NoErr]

\* pullDefiConfigValue: (hexutil.Big, error) of one call stub
pullDefiConfigValue(out) ==
    IF out.err # NoErr THEN [val |-> Zero, err |-> out.err]
    ELSE IF out.val = Nil
         THEN [val |-> Zero, err |-> "defi config value not available"]
    ELSE [val |-> CHOOSE v \in out.val : TRUE, err |-> NoErr]

\* a range over the loaders that goes on after an error
rangeGoesOn(err) == FALSE

\* the test `if err != nil { return err }` inside the range over the loaders
rangeReturns(err) == err # NoErr

\* a failure that hands out the record in progress
FailureWithRecord(d, err) == [val |-> {d}, err |-> err]

\* `return nil, err`: what DefiConfiguration returns on a failure
Failure(d, err) == [val |-> Nil, err |-> err]

\* `return &ds, nil`
Success(d) == [val |-> {d}, err |-> NoErr]

\* a loop that runs while the value is positive
LoopCondPositive(v) == Less(<< >>, v)

\* the condition of the loop `for value > 1`
LoopCond(v) == Less(<<1>>, v)

NoRet == [val |-> Nil, err |-> NoErr]

NoPrev == [slot |-> "", err |-> ""]

\* no call is being served
Idle == pc = "idle"

\* the slot whose loader failed in the DefiConfiguration call just served
FailedSlot ==
    IF op = "DefiConfiguration" /\ pc = "done" /\ invoked # << >>
       /\ pullDefiConfigValue(node.call[MethodOf(invoked[Len(invoked)])]).err # NoErr
    THEN invoked[Len(invoked)]
    ELSE ""

\* the last DefiConfiguration call that a loader failed, as its caller saw it
LastFailure ==
    IF FailedSlot # "" THEN [slot |-> FailedSlot, err |-> ret.err] ELSE prev

\* a caller invokes DefiConfiguration against some node
CallDefiConfiguration ==
    /\ Idle
    /\ \E c \in Causes \cup {NoErr},
          r \in [Methods \ {"FMintFeeDigitsCorrection"} -> LoaderOutcomes(RatioValues)],
          d \in LoaderOutcomes(ConfigScales) :
            node' = [NoNode EXCEPT
                        !.contract = c,
                        !.call = [m \in Methods |->
                                    IF m = "FMintFeeDigitsCorrection" THEN d ELSE r[m]]]
    /\ op' = "DefiConfiguration"
    /\ pc' = "contract"
    /\ ds' = ZeroSettings
    /\ pending' = {}
    /\ invoked' = << >>
    /\ value' = Zero
    /\ dec' = 0
    /\ ret' = NoRet
    /\ UNCHANGED prev

\* ftm.fMintCfg.fMintMinterContract(), then the container and the loaders table
AccessContract ==
    /\ op = "DefiConfiguration" /\ pc = "contract"
    /\ IF node.contract # NoErr
       THEN /\ ret' = Failure(ds, node.contract)
            /\ pc' = "done"
            /\ UNCHANGED <<ds, pending>>
       ELSE /\ ds' = SeededSettings
            /\ pending' = DOMAIN Loaders
            /\ pc' = "range"
            /\ UNCHANGED ret
    /\ UNCHANGED <<op, node, invoked, value, dec, prev>>

\* pullSetOfDefiConfigValues: one iteration of the range over the loaders map,
\* which Go visits in an order of its choosing
PullSetOfDefiConfigValues ==
    /\ op = "DefiConfiguration" /\ pc = "range"
    /\ \E ref \in pending :
        LET r == pullDefiConfigValue(node.call[Loaders[ref]])
        IN  /\ ds' = [ds EXCEPT ![ref] = r.val]
            /\ invoked' = Append(invoked, ref)
            /\ pending' = pending \ {ref}
            /\ IF rangeReturns(r.err)
               THEN /\ ret' = Failure(ds', r.err)
                    /\ pc' = "done"
               ELSE /\ pc' = IF pending' = {} THEN "decimals" ELSE "range"
                    /\ UNCHANGED ret
    /\ UNCHANGED <<op, node, value, dec, prev>>

\* pullDefiDecimalCorrection up to the loop: the pull and the conversion
PullDefiDecimalCorrection ==
    /\ op = "DefiConfiguration" /\ pc = "decimals"
    /\ LET r == pullDefiConfigValue(node.call["FMintFeeDigitsCorrection"])
       IN  /\ invoked' = Append(invoked, "Decimals")
           /\ IF r.err # NoErr
              THEN /\ ds' = [ds EXCEPT !.Decimals = 0]
                   /\ ret' = Failure(ds', r.err)
                   /\ pc' = "done"
                   /\ UNCHANGED <<value, dec>>
              ELSE /\ value' = Uint64(r.val)
                   /\ dec' = 0
                   /\ pc' = "loop"
                   /\ UNCHANGED <<ds, ret>>
    /\ UNCHANGED <<op, node, pending, prev>>

\* one iteration of `for value > 1 { value /= 10; dec++ }`
DecimalsLoop ==
    /\ op = "DefiConfiguration" /\ pc = "loop"
    /\ LoopCond(value)
    /\ value' = DivSmall(value, 10)
    /\ dec' = dec + 1
    /\ UNCHANGED <<op, pc, node, ds, pending, invoked, ret, prev>>

\* the loop ends: `return dec, nil`, then `return &ds, nil`
DecimalsReturn ==
    /\ op = "DefiConfiguration" /\ pc = "loop"
    /\ ~LoopCond(value)
    /\ ds' = [ds EXCEPT !.Decimals = dec]
    /\ ret' = Success(ds')
    /\ pc' = "done"
    /\ UNCHANGED <<op, node, pending, invoked, value, dec, prev>>

------------------------------------------------------------------------------
(* FtmBridge.AccountBalance and FtmBridge.AccountNonce. *)

\* AccountBalance: (*hexutil.Big, error)
balanceOf(reply) ==
    IF reply.err # NoErr THEN [val |-> Nil, err |-> reply.err]
    ELSE DecodeBig(reply.str)

\* AccountNonce: (uint64, error)
nonceOf(reply) ==
    IF reply.err # NoErr THEN [val |-> {Zero}, err |-> reply.err]
    ELSE LET d == DecodeUint64(reply.str)
         IN  IF d.err # NoErr THEN [val |-> {Zero}, err |-> d.err]
             ELSE [val |-> {d.val}, err |-> NoErr]

AccountBalance ==
    /\ Idle
    /\ \E reply \in Replies :
          /\ node' = [NoNode EXCEPT !.reply = reply]
          /\ ret' = balanceOf(reply)
    /\ op' = "AccountBalance"
    /\ pc' = "done"
    /\ ds' = ZeroSettings
    /\ pending' = {}
    /\ invoked' = << >>
    /\ value' = Zero
    /\ dec' = 0
    /\ UNCHANGED prev

AccountNonce ==
    /\ Idle
    /\ \E reply \in Replies :
          /\ node' = [NoNode EXCEPT !.reply = reply]
          /\ ret' = nonceOf(reply)
    /\ op' = "AccountNonce"
    /\ pc' = "done"
    /\ ds' = ZeroSettings
    /\ pending' = {}
    /\ invoked' = << >>
    /\ value' = Zero
    /\ dec' = 0
    /\ UNCHANGED prev

------------------------------------------------------------------------------
(* NewErc20Token and the Erc20Token resolver. *)

\* NewErc20Token: *ERC20Token, and nothing else
NewErc20Token(probe) ==
    IF probe.err # NoErr THEN [val |-> Nil, err |-> NoErr]
    ELSE [val |-> probe.val, err |-> NoErr]

Erc20Token ==
    /\ Idle
    /\ \E adr \in Addresses :
          \E probe \in ProbeOutcomes(adr) :
              /\ node' = [NoNode EXCEPT !.adr = adr, !.probe = probe]
              /\ ret' = NewErc20Token(probe)
    /\ op' = "Erc20Token"
    /\ pc' = "done"
    /\ ds' = ZeroSettings
    /\ pending' = {}
    /\ invoked' = << >>
    /\ value' = Zero
    /\ dec' = 0
    /\ UNCHANGED prev

------------------------------------------------------------------------------
(* The specifications. *)

\* the caller has taken what the call returned; the bridge keeps nothing of it
Finish ==
    /\ pc = "done"
    /\ op' = "none"
    /\ pc' = "idle"
    /\ node' = NoNode
    /\ ds' = ZeroSettings
    /\ pending' = {}
    /\ invoked' = << >>
    /\ value' = Zero
    /\ dec' = 0
    /\ ret' = NoRet
    /\ prev' = LastFailure

Init ==
    /\ op = "none"
    /\ pc = "idle"
    /\ node = NoNode
    /\ ds = ZeroSettings
    /\ pending = {}
    /\ invoked = << >>
    /\ value = Zero
    /\ dec = 0
    /\ ret = NoRet
    /\ prev = NoPrev

Next ==
    \/ CallDefiConfiguration
    \/ AccessContract
    \/ PullSetOfDefiConfigValues
    \/ PullDefiDecimalCorrection
    \/ DecimalsLoop
    \/ DecimalsReturn
    \/ AccountBalance
    \/ AccountNonce
    \/ Erc20Token
    \/ Finish

Spec == Init /\ [][Next]_vars

\* DefiConfiguration about to pull the decimals correction, the three ratios
\* loaded, against a node that answers any of the scale factors
InitDecimals ==
    /\ op = "DefiConfiguration"
    /\ pc = "decimals"
    /\ \E d \in LoaderOutcomes(ScaleFactors) :
          node = [NoNode EXCEPT
                    !.call = [m \in Methods |->
                                IF m = "FMintFeeDigitsCorrection" THEN d
                                ELSE [val |-> {FromInt(15000)}, err |-> NoErr]]]
    /\ ds = [SeededSettings EXCEPT !.MintFee4 = FromInt(15000),
                                   !.MinCollateralRatio4 = FromInt(15000),
                                   !.RewardCollateralRatio4 = FromInt(15000)]
    /\ pending = {}
    /\ invoked \in {<<"MintFee4", "MinCollateralRatio4", "RewardCollateralRatio4">>,
                    <<"RewardCollateralRatio4", "MinCollateralRatio4", "MintFee4">>}
    /\ value = Zero
    /\ dec = 0
    /\ ret = NoRet
    /\ prev = NoPrev

NextDecimals ==
    \/ PullDefiDecimalCorrection
    \/ DecimalsLoop
    \/ DecimalsReturn

SpecDecimals == InitDecimals /\ [][NextDecimals]_vars

------------------------------------------------------------------------------
(* What the claims speak of. *)

DefiDone == op = "DefiConfiguration" /\ pc = "done"

SlotOrder == <<"MintFee4", "MinCollateralRatio4", "RewardCollateralRatio4", "Decimals">>

\* the contract method the specification reads each slot from
SlotMethod ==
    [MintFee4 |-> "GetFMintFee4dec",
     MinCollateralRatio4 |-> "GetCollateralLowestDebtRatio4dec",
     RewardCollateralRatio4 |-> "GetRewardEligibilityRatio4dec",
     Decimals |-> "FMintFeeDigitsCorrection"]

\* the stub returns an error
Errs(m) == node.call[m].err # NoErr

\* the stub reports success and delivers no value
Unavailable(m) == node.call[m].err = NoErr /\ node.call[m].val = Nil

Delivers(m) == node.call[m].err = NoErr /\ node.call[m].val # Nil

Delivered(m) == CHOOSE v \in node.call[m].val : TRUE

\* the digits correction the node answers
Scale == Delivered("FMintFeeDigitsCorrection")

IsPow10(v) == \E k \in 0..(MaxExp + 3) : v = Pow10(k)

\* the largest d with 10^d <= v, for v >= 1
FloorLog10(v) ==
    CHOOSE d \in 0..(MaxExp + 3) : Leq(Pow10(d), v) /\ Less(v, Pow10(d + 1))

RECURSIVE CountDivisions(_)
CountDivisions(v) ==
    IF Less(<<1>>, v) THEN 1 + CountDivisions(DivSmall(v, 10)) ELSE 0

HexChars == {"0", "1", "2", "3", "4", "5", "6", "7", "8", "9",
             "a", "b", "c", "d", "e", "f", "A", "B", "C", "D", "E", "F"}

\* 0x and then at least one hex digit
WellFormedHex(s) ==
    /\ Len(s) >= 3
    /\ s[1] = "0"
    /\ s[2] \in {"x", "X"}
    /\ \A i \in 3..Len(s) : s[i] \in HexChars

------------------------------------------------------------------------------
(* C1 *)

\* C1: DefiConfiguration is all-or-nothing.  When the contract cannot be
\* accessed or any loader fails, whatever the order the loaders ran in, the
\* call returns an error and a nil record; a record is returned exactly when
\* the error is nil.
AllOrNothing ==
    DefiDone =>
        /\ ret.val # Nil <=> ret.err = NoErr
        /\ (node.contract # NoErr \/ \E m \in Methods : Errs(m))
              => ret.err # NoErr /\ ret.val = Nil

\* a loader failed after another one had filled its slot, and nothing is returned
PartialRecordDiscarded ==
    /\ DefiDone
    /\ \E m \in Methods : Errs(m)
    /\ \E s \in RatioSlots : ds[s] # Zero
    /\ ret.val = Nil
    /\ ret.err # NoErr

------------------------------------------------------------------------------
(* C2 *)

\* C2: the error of a failed DefiConfiguration call identifies the slot that
\* failed: two calls that failed in different slots return different errors.
ErrorIdentifiesSlot ==
    (DefiDone /\ FailedSlot # "" /\ prev.slot # "" /\ prev.slot # FailedSlot)
        => ret.err # prev.err

------------------------------------------------------------------------------
(* C3 *)

------------------------------------------------------------------------------
(* C4 *)

\* the error a slot's loader ends with
ErrorOf(slot) == pullDefiConfigValue(node.call[SlotMethod[slot]]).err

\* C4: when loaders fail, the error returned is that of the earliest failing
\* slot in the declared slot order.
FirstErrorInSlotOrder ==
    (DefiDone /\ node.contract = NoErr
        /\ \E i \in 1..Len(SlotOrder) : ErrorOf(SlotOrder[i]) # NoErr) =>
        LET first == CHOOSE i \in 1..Len(SlotOrder) :
                        /\ ErrorOf(SlotOrder[i]) # NoErr
                        /\ \A j \in 1..(i - 1) : ErrorOf(SlotOrder[j]) = NoErr
        IN  ret.err = ErrorOf(SlotOrder[first])

------------------------------------------------------------------------------
(* C5 *)

\* C5: a probe that fails with a RemoteError or an unusable result gives an
\* absent token, a probe that fails with a TransportError is propagated as an
\* error, and a token is constructed only after a successful probe.
ProbeFailuresDistinguished ==
    (op = "Erc20Token" /\ pc = "done") =>
        /\ node.probe.err \in {"RemoteError", "DecodeError"}
              => ret.val = Nil /\ ret.err = NoErr
        /\ node.probe.err = "TransportError" => ret.err = "TransportError"
        /\ ret.val # Nil => node.probe.err = NoErr

------------------------------------------------------------------------------
(* C6 *)

\* C6: the decimals correction of a scale factor 10^k is k, that of 0 is 0,
\* and every division by ten makes the value smaller.
PowerOfTenDigits ==
    /\ (DefiDone /\ Delivers("FMintFeeDigitsCorrection")) =>
          /\ ret.err = NoErr
          /\ \A k \in 0..(MaxExp + 3) : Scale = Pow10(k) => ds.Decimals = k
          /\ Scale = Zero => ds.Decimals = 0
    /\ (op = "DefiConfiguration" /\ pc = "loop" /\ LoopCond(value))
          => Less(DivSmall(value, 10), value)

------------------------------------------------------------------------------
(* C7 *)

\* C7: the scale factor the loop divides by ten is the fetched value itself,
\* also when the fetched value is 2^64 or more.
NoTruncation ==
    (op = "DefiConfiguration" /\ pc = "loop" /\ dec = 0) => value = Scale

------------------------------------------------------------------------------
(* C8 *)

\* C8: success without a value is an error.  A loader that returns a nil value
\* and a nil error makes DefiConfiguration return an error and no record;
\* AccountBalance and AccountNonce return an error when the node's reply is
\* empty or is not well-formed hex.
MissingValueIsError ==
    /\ (DefiDone /\ \E i \in 1..Len(invoked) : Unavailable(SlotMethod[invoked[i]]))
          => ret.err # NoErr /\ ret.val = Nil
    /\ (op = "AccountBalance" /\ pc = "done" /\ ~WellFormedHex(node.reply.str))
          => ret.err # NoErr /\ ret.val = Nil
    /\ (op = "AccountNonce" /\ pc = "done" /\ ~WellFormedHex(node.reply.str))
          => ret.err # NoErr

\* a loader delivered nothing after another one had delivered its value
NilValueSeen ==
    /\ DefiDone
    /\ Len(invoked) >= 2
    /\ Unavailable(SlotMethod[invoked[Len(invoked)]])
    /\ ret.err = "defi config value not available"

------------------------------------------------------------------------------
(* C9 *)

\* C9: within one DefiConfiguration call no loader is invoked after a loader
\* failed or after the contract could not be accessed, the digits correction
\* is invoked only after the three ratio loaders delivered, and no loader is
\* invoked twice.
FailFast ==
    op = "DefiConfiguration" =>
        /\ \A i, j \in 1..Len(invoked) : i # j => invoked[i] # invoked[j]
        /\ \A i \in 1..(Len(invoked) - 1) : Delivers(SlotMethod[invoked[i]])
        /\ node.contract # NoErr => invoked = << >>
        /\ \A i \in 1..Len(invoked) :
              invoked[i] = "Decimals" =>
                  /\ i = 4
                  /\ {invoked[j] : j \in 1..3} = RatioSlots
                  /\ \A s \in RatioSlots : Delivers(SlotMethod[s])

\* the call ended on the failure of the first loader it invoked, the other two
\* loaders would have delivered
AbortedEarly ==
    /\ DefiDone
    /\ Len(invoked) = 1
    /\ ~Delivers(SlotMethod[invoked[1]])
    /\ \A s \in RatioSlots \ {invoked[1]} : Delivers(SlotMethod[s])
    /\ ret.err # NoErr

------------------------------------------------------------------------------
(* C10 *)

\* C10: for a positive scale factor that is no power of ten the decimals
\* correction is the largest d with 10^d <= S, and no error is reported.
TruncatedDigitCount ==
    (DefiDone /\ Delivers("FMintFeeDigitsCorrection")
        /\ Scale # Zero /\ ~IsPow10(Scale)) =>
            /\ ret.err = NoErr
            /\ ds.Decimals = FloorLog10(Scale)

\* C10 as amended: for a positive scale factor S that is no power of ten, with
\* v the low 64 bits of S, the decimals correction is 0 when v <= 1 and else
\* d or d + 1 for the largest d with 10^d <= v: d + 1 exactly when
\* v >= 2 * 10^d; no error is reported.
DigitCountOfLeadingDigit ==
    (DefiDone /\ Delivers("FMintFeeDigitsCorrection")
        /\ Scale # Zero /\ ~IsPow10(Scale)) =>
            /\ ret.err = NoErr
            /\ ret.val # Nil
            /\ LET v == Uint64(Scale)
               IN  IF Leq(v, <<1>>) THEN ds.Decimals = 0
                   ELSE LET d == FloorLog10(v)
                        IN  ds.Decimals =
                              IF Less(v, MulAdd(Pow10(d), 2, 0)) THEN d ELSE d + 1

\* a scale factor below 2^64 whose correction exceeds its logarithm
RoundedUp ==
    /\ DefiDone
    /\ Delivers("FMintFeeDigitsCorrection")
    /\ Scale # Zero
    /\ ~IsPow10(Scale)
    /\ Uint64(Scale) = Scale
    /\ ds.Decimals = FloorLog10(Scale) + 1

====
